---- MODULE Spec2Model ----
(***************************************************************************)
(* Model of hts_settings.h: the Haptic Timeline Service settings structure *)
(* (three uint8_t fields) and the union hts_settings_data that overlays a  *)
(* byte array on it for BLE transmissions.                                 *)
(*                                                                         *)
(* A union instance is modelled as its storage: one byte per address.      *)
(* Both members are views computed from that storage with the C layout     *)
(* rules (offsets from sizes and alignments, array length from sizeof).    *)
(***************************************************************************)
EXTENDS Integers, Sequences, FiniteSets, TLC

(***************************************************************************)
(* Bounds of the model                                                     *)
(***************************************************************************)
\* payload bytes are drawn from 0..MaxByte, 9 and 255
MaxByte == 3
\* longest incoming transmission handed to decode
MaxLen == 4
\* number of threads running codec calls side by side
NThreads == 2

(***************************************************************************)
(* uint8_t (stdint.h)                                                      *)
(***************************************************************************)
Uint8Max == 255
SizeofUint8 == 1
AlignofUint8 == 1

Byte == 0..Uint8Max

\* conversion of an integer to uint8_t on assignment
ToUint8_7bit(v) == v % 128
ToUint8(v) == v % (Uint8Max + 1)

(***************************************************************************)
(* struct hts_settings: the members in declaration order                   *)
(***************************************************************************)
hts_settings_swapped ==
    << [name |-> "pair_button_orientation", size |-> SizeofUint8, align |-> AlignofUint8],
       [name |-> "wrist_orientation", size |-> SizeofUint8, align |-> AlignofUint8],
       [name |-> "intensity_level", size |-> SizeofUint8, align |-> AlignofUint8] >>
hts_settings_wide ==
    << [name |-> "wrist_orientation", size |-> SizeofUint8, align |-> AlignofUint8],
       [name |-> "pair_button_orientation", size |-> SizeofUint8, align |-> AlignofUint8],
       [name |-> "intensity_level", size |-> 2 * SizeofUint8, align |-> 2 * AlignofUint8] >>
hts_settings ==
    << [name |-> "wrist_orientation", size |-> SizeofUint8, align |-> AlignofUint8],
       [name |-> "pair_button_orientation", size |-> SizeofUint8, align |-> AlignofUint8],
       [name |-> "intensity_level", size |-> SizeofUint8, align |-> AlignofUint8] >>

FieldNames == { hts_settings[k].name : k \in 1..Len(hts_settings) }

MaxOf(S) == CHOOSE x \in S : \A y \in S : y <= x

\* round n up to a multiple of a
AlignUp(n, a) == ((n + a - 1) \div a) * a

\* C layout: a member starts at the first address past the previous member that
\* satisfies its alignment
RECURSIVE MemberOffset(_, _)
MemberOffset(s, k) ==
    IF k = 1 THEN 0
    ELSE AlignUp(MemberOffset(s, k - 1) + s[k - 1].size, s[k].align)

StructAlign(s) == MaxOf({ s[k].align : k \in 1..Len(s) })

\* C layout: the size of a struct is the end of its last member, padded to the
\* alignment of the struct
StructSize(s) == AlignUp(MemberOffset(s, Len(s)) + s[Len(s)].size, StructAlign(s))

FieldIndex(f) == CHOOSE k \in 1..Len(hts_settings) : hts_settings[k].name = f

\* offsetof(hts_settings, f)
offsetof(f) == MemberOffset(hts_settings, FieldIndex(f))

\* sizeof(hts_settings)
sizeof_hts_settings == StructSize(hts_settings)

(***************************************************************************)
(* union hts_settings_data                                                 *)
(***************************************************************************)
\* the size the comment on the data member documents
DocumentedSize == 2

\* length of the member  uint8_t bytes[sizeof(hts_settings)]
bytes_len_documented == DocumentedSize
bytes_len == sizeof_hts_settings

\* sizeof(hts_settings_data): a union is as large as its largest member
sizeof_hts_settings_data == MaxOf({ bytes_len * SizeofUint8, sizeof_hts_settings })

Addr == 0..(sizeof_hts_settings_data - 1)

\* the contents an object without an initializer may hold: any byte; the model
\* draws them from the two extremes
Indeterminate == {0, Uint8Max}
FreshUnion == [Addr -> Indeterminate]

\* the bytes member: bytes[i] is the storage at address i
bytes_view(m) == [i \in 0..(bytes_len - 1) |-> m[i * SizeofUint8]]

\* the data member: data.f is the storage at offsetof(f)
data_view(m) == [f \in FieldNames |-> m[offsetof(f)]]

\* u.data.f = v
set_field(m, f, v) == [m EXCEPT ![offsetof(f)] = ToUint8(v)]

\* u.bytes[i] = v
set_byte_next(m, i, v) == [m EXCEPT ![(i + 1) % sizeof_hts_settings_data] = ToUint8(v)]
set_byte(m, i, v) == [m EXCEPT ![i * SizeofUint8] = ToUint8(v)]

\* u.data = r, member by member in declaration order
RECURSIVE StoreFields(_, _, _)
StoreFields(m, r, k) ==
    IF k > Len(hts_settings) THEN m
    ELSE StoreFields(set_field(m, hts_settings[k].name, r[hts_settings[k].name]), r, k + 1)

store_data(m, r) == StoreFields(m, r, 1)

\* copy of the first n bytes of a transmission b into u.bytes
RECURSIVE CopyBytes(_, _, _, _)
CopyBytes(m, b, i, n) ==
    IF i >= n THEN m
    ELSE CopyBytes(set_byte(m, i, b[i + 1]), b, i + 1, n)

store_bytes(m, b) == CopyBytes(m, b, 0, bytes_len)

\* the transmission read out of u.bytes: offset i of the wire is bytes[i]
load_bytes(m) == [k \in 1..bytes_len |-> bytes_view(m)[k - 1]]

(***************************************************************************)
(* The codec: the two directions of the union's reinterpretation           *)
(***************************************************************************)
NoRecord == [f \in FieldNames |-> -1]

\* the record with the three fields given in declaration order
Rec(w, p, i) ==
    [f \in FieldNames |->
        CASE f = "wrist_orientation" -> w
          [] f = "pair_button_orientation" -> p
          [] f = "intensity_level" -> i]

Ok(rec, wire, un) == [err |-> "none", rec |-> rec, wire |-> wire, un |-> un]
Fail(e, wire, un) == [err |-> e, rec |-> NoRecord, wire |-> wire, un |-> un]

\* record -> wire: store r through the data view of a union holding m0, read the
\* bytes view
encode_checked(m0, r) ==
    IF r["intensity_level"] >= 2
    THEN [err |-> "InvalidField", rec |-> r, wire |-> <<>>, un |-> m0]
    ELSE Ok(r, load_bytes(store_data(m0, r)), store_data(m0, r))
encode(m0, r) == Ok(r, load_bytes(store_data(m0, r)), store_data(m0, r))

\* wire -> record, the reinterpretation itself: write b into the bytes view of a
\* union holding m0, read the data view
reinterpret_validated(m0, b) ==
    IF \E k \in 1..Len(b) : b[k] > 2
    THEN Fail("InvalidField", b, m0)
    ELSE Ok(data_view(store_bytes(m0, b)), b, store_bytes(m0, b))
reinterpret(m0, b) == Ok(data_view(store_bytes(m0, b)), b, store_bytes(m0, b))

\* wire -> record with the length of the transmission checked first
decode(m0, b) ==
    IF Len(b) # bytes_len THEN Fail("LengthMismatch", b, m0)
    ELSE reinterpret(m0, b)

(***************************************************************************)
(* State                                                                   *)
(***************************************************************************)
VARIABLES
    op,        \* codec: the last call, "none" | "encode" | "decode"
    chained,   \* codec: the call's input was the previous call's output
    rec,       \* codec: the record of the call (input of encode, output of decode)
    wire,      \* codec: the bytes of the call (output of encode, input of decode)
    err,       \* codec: the outcome of the call
    un0,       \* codec: the union of the call as it was before the call
    un,        \* codec: the union of the call after the call
    prev_rec,  \* codec: the record the previous call encoded (chained decode)
    prev_wire, \* codec: the bytes the previous call decoded (chained encode)
    hu,        \* one union: its storage
    hu_prev,   \* one union: its storage before the last write
    last_kind, \* one union: the last write, "none" | "field" | "byte" | "data" | "bytes"
    last_field, \* one union: the field the last write named ("" when none)
    last_index, \* one union: the index into bytes the last write named (-1 when none)
    last_val,  \* one union: the value the last write stored (-1 when none)
    tu,        \* threads: the storage of each union instance
    tpc,       \* threads: where each thread is in its call
    tk,        \* threads: the member or byte each thread handles next
    top,       \* threads: the call each thread runs
    targ_rec,  \* threads: the record handed to each thread's encode
    targ_wire, \* threads: the bytes handed to each thread's decode
    tret_rec,  \* threads: the record each thread's decode has read so far
    tret_wire, \* threads: the bytes each thread's encode has read so far
    terr       \* threads: the outcome of each thread's call

codec_vars == <<op, chained, rec, wire, err, un0, un, prev_rec, prev_wire>>
union_vars == <<hu, hu_prev, last_kind, last_field, last_index, last_val>>
thread_vars == <<tu, tpc, tk, top, targ_rec, targ_wire, tret_rec, tret_wire, terr>>
vars == <<codec_vars, union_vars, thread_vars>>

Threads == 1..NThreads

InByte == (0..MaxByte) \cup {9, Uint8Max}

Records == [FieldNames -> InByte]

RECURSIVE SeqsOfLen(_, _)
SeqsOfLen(S, n) ==
    IF n = 0 THEN { <<>> }
    ELSE { Append(s, x) : s \in SeqsOfLen(S, n - 1), x \in S }

Wires == UNION { SeqsOfLen(InByte, n) : n \in 0..MaxLen }

ZeroUnion == [a \in Addr |-> 0]

InitCodec ==
    /\ op = "none"
    /\ chained = FALSE
    /\ rec = NoRecord
    /\ wire = <<>>
    /\ err = "none"
    /\ un0 = ZeroUnion
    /\ un = ZeroUnion
    /\ prev_rec = NoRecord
    /\ prev_wire = <<>>

\* a union defined without an initializer holds indeterminate bytes
InitUnion(start) ==
    /\ hu \in start
    /\ hu_prev = hu
    /\ last_kind = "none"
    /\ last_field = ""
    /\ last_index = -1
    /\ last_val = -1

\* every thread has a union instance of its own and no call under way
InitThreads ==
    /\ tu = [i \in Threads |-> ZeroUnion]
    /\ tpc = [t \in Threads |-> "idle"]
    /\ tk = [t \in Threads |-> 0]
    /\ top = [t \in Threads |-> "none"]
    /\ targ_rec = [t \in Threads |-> NoRecord]
    /\ targ_wire = [t \in Threads |-> <<>>]
    /\ tret_rec = [t \in Threads |-> NoRecord]
    /\ tret_wire = [t \in Threads |-> <<>>]
    /\ terr = [t \in Threads |-> "none"]

Init ==
    /\ InitCodec
    /\ InitUnion({ZeroUnion})
    /\ InitThreads

Apply(o, res, m0, ch, pr, pw) ==
    /\ op' = o
    /\ chained' = ch
    /\ rec' = res.rec
    /\ wire' = res.wire
    /\ err' = res.err
    /\ un0' = m0
    /\ un' = res.un
    /\ prev_rec' = pr
    /\ prev_wire' = pw

\* encode a record chosen by the caller
Encode ==
    /\ op = "none"
    /\ \E r \in Records, m0 \in FreshUnion :
        Apply("encode", encode(m0, r), m0, FALSE, NoRecord, <<>>)

\* decode a transmission as it arrives
Decode ==
    /\ op = "none"
    /\ \E b \in Wires, m0 \in FreshUnion :
        Apply("decode", decode(m0, b), m0, FALSE, NoRecord, <<>>)

\* decode, in a fresh union, the bytes the last call encoded
DecodeEncoded ==
    /\ op = "encode"
    /\ err = "none"
    /\ \E m0 \in FreshUnion :
        Apply("decode", decode(m0, wire), m0, TRUE, rec, <<>>)

\* encode, in a fresh union, the record the last call decoded
EncodeDecoded ==
    /\ op = "decode"
    /\ err = "none"
    /\ \E m0 \in FreshUnion :
        Apply("encode", encode(m0, rec), m0, TRUE, NoRecord, wire)

\* the caller is done with the result; the union of the call goes out of scope
Return ==
    /\ op # "none"
    /\ Apply("none", Ok(NoRecord, <<>>, ZeroUnion), ZeroUnion, FALSE, NoRecord, <<>>)

Next ==
    \/ Encode /\ UNCHANGED <<union_vars, thread_vars>>
    \/ Decode /\ UNCHANGED <<union_vars, thread_vars>>
    \/ DecodeEncoded /\ UNCHANGED <<union_vars, thread_vars>>
    \/ EncodeDecoded /\ UNCHANGED <<union_vars, thread_vars>>
    \/ Return /\ UNCHANGED <<union_vars, thread_vars>>

Spec == Init /\ [][Next]_vars

(***************************************************************************)
(* One union written through either member                                 *)
(***************************************************************************)
Wrote(kind, f, i, v, m) ==
    /\ hu_prev' = hu
    /\ hu' = m
    /\ last_kind' = kind
    /\ last_field' = f
    /\ last_index' = i
    /\ last_val' = v

\* u.data.f = v
WriteField ==
    \E f \in FieldNames, v \in InByte :
        Wrote("field", f, -1, v, set_field(hu, f, v))

\* u.bytes[i] = v
WriteByte ==
    \E i \in 0..(bytes_len - 1), v \in InByte :
        Wrote("byte", "", i, v, set_byte(hu, i, v))

\* the values of the writes that replace the whole object
WholeByte == {1, Uint8Max}

\* u.data = r
WriteData ==
    \E r \in [FieldNames -> WholeByte] :
        Wrote("data", "", -1, -1, store_data(hu, r))

\* the bytes of a transmission copied into u.bytes
WriteBytes ==
    \E b \in SeqsOfLen(WholeByte, bytes_len) :
        Wrote("bytes", "", -1, -1, store_bytes(hu, b))

NextUnion ==
    \/ WriteField /\ UNCHANGED <<codec_vars, thread_vars>>
    \/ WriteByte /\ UNCHANGED <<codec_vars, thread_vars>>
    \/ WriteData /\ UNCHANGED <<codec_vars, thread_vars>>
    \/ WriteBytes /\ UNCHANGED <<codec_vars, thread_vars>>

InitFresh ==
    /\ InitCodec
    /\ InitUnion(FreshUnion)
    /\ InitThreads

SpecUnion == InitFresh /\ [][NextUnion]_vars

(***************************************************************************)
(* Codec calls on several threads, each on a union instance of its own,    *)
(* one member or byte access per step                                      *)
(***************************************************************************)
\* the union instance a thread's call works on: the one the call defines
instance_shared(t) == 1
instance_of(t) == t

ThreadRecords == { Rec(0, 1, 2), Rec(1, 0, 9) }
ThreadWires == { <<0, 1>>, <<1, 1, 2>>, <<0, 1, 2, 3>> }

\* what the union a thread defines may hold: here one indeterminate byte
\* repeated
ThreadFresh == { [a \in Addr |-> v] : v \in Indeterminate }

Started(t, o, r, b, m0, e, pc) ==
    /\ tpc[t] = "idle"
    /\ top' = [top EXCEPT ![t] = o]
    /\ targ_rec' = [targ_rec EXCEPT ![t] = r]
    /\ targ_wire' = [targ_wire EXCEPT ![t] = b]
    /\ tu' = [tu EXCEPT ![instance_of(t)] = m0]
    /\ terr' = [terr EXCEPT ![t] = e]
    /\ tpc' = [tpc EXCEPT ![t] = pc]
    /\ UNCHANGED <<tk, tret_rec, tret_wire>>

\* a thread starts encoding a record in a union it defines
BeginEncode(t) ==
    \E r \in ThreadRecords, m0 \in ThreadFresh :
        Started(t, "encode", r, <<>>, m0, "none", "store")

\* a thread starts decoding a transmission in a union it defines; a
\* transmission of the wrong length ends the call at once
BeginDecode(t) ==
    \E b \in ThreadWires, m0 \in ThreadFresh :
        IF Len(b) # bytes_len
        THEN Started(t, "decode", NoRecord, b, m0, "LengthMismatch", "done")
        ELSE Started(t, "decode", NoRecord, b, m0, "none", "store")

\* advance a thread past access k of n: on to the next access, or to the next phase
Advance(t, n, phase) ==
    IF tk[t] + 1 >= n
    THEN /\ tpc' = [tpc EXCEPT ![t] = phase]
         /\ tk' = [tk EXCEPT ![t] = 0]
    ELSE /\ tk' = [tk EXCEPT ![t] = tk[t] + 1]
         /\ UNCHANGED tpc

\* encode: u.data.f = r.f for the next member f
StoreField(t) ==
    /\ tpc[t] = "store"
    /\ top[t] = "encode"
    /\ LET f == hts_settings[tk[t] + 1].name
           i == instance_of(t)
       IN tu' = [tu EXCEPT ![i] = set_field(tu[i], f, targ_rec[t][f])]
    /\ Advance(t, Len(hts_settings), "load")
    /\ UNCHANGED <<top, targ_rec, targ_wire, tret_rec, tret_wire, terr>>

\* encode: the next byte of the result is read from u.bytes
LoadByte(t) ==
    /\ tpc[t] = "load"
    /\ top[t] = "encode"
    /\ tret_wire' = [tret_wire EXCEPT
                        ![t] = Append(tret_wire[t], bytes_view(tu[instance_of(t)])[tk[t]])]
    /\ Advance(t, bytes_len, "done")
    /\ UNCHANGED <<tu, top, targ_rec, targ_wire, tret_rec, terr>>

\* decode: u.bytes[k] = b[k] for the next byte
StoreByte(t) ==
    /\ tpc[t] = "store"
    /\ top[t] = "decode"
    /\ LET i == instance_of(t)
       IN tu' = [tu EXCEPT ![i] = set_byte(tu[i], tk[t], targ_wire[t][tk[t] + 1])]
    /\ Advance(t, bytes_len, "load")
    /\ UNCHANGED <<top, targ_rec, targ_wire, tret_rec, tret_wire, terr>>

\* decode: the next member of the result is read from u.data
LoadField(t) ==
    /\ tpc[t] = "load"
    /\ top[t] = "decode"
    /\ LET f == hts_settings[tk[t] + 1].name
       IN tret_rec' = [tret_rec EXCEPT
                         ![t] = [tret_rec[t] EXCEPT
                                   ![f] = data_view(tu[instance_of(t)])[f]]]
    /\ Advance(t, Len(hts_settings), "done")
    /\ UNCHANGED <<tu, top, targ_rec, targ_wire, tret_wire, terr>>

\* the caller takes the result; the union of the call goes out of scope
ThreadReturn(t) ==
    /\ tpc[t] = "done"
    /\ tpc' = [tpc EXCEPT ![t] = "idle"]
    /\ top' = [top EXCEPT ![t] = "none"]
    /\ targ_rec' = [targ_rec EXCEPT ![t] = NoRecord]
    /\ targ_wire' = [targ_wire EXCEPT ![t] = <<>>]
    /\ tret_rec' = [tret_rec EXCEPT ![t] = NoRecord]
    /\ tret_wire' = [tret_wire EXCEPT ![t] = <<>>]
    /\ terr' = [terr EXCEPT ![t] = "none"]
    /\ tu' = [tu EXCEPT ![instance_of(t)] = ZeroUnion]
    /\ UNCHANGED tk

NextThreads ==
    \/ \E t \in Threads : BeginEncode(t) /\ UNCHANGED <<codec_vars, union_vars>>
    \/ \E t \in Threads : BeginDecode(t) /\ UNCHANGED <<codec_vars, union_vars>>
    \/ \E t \in Threads : StoreField(t) /\ UNCHANGED <<codec_vars, union_vars>>
    \/ \E t \in Threads : LoadByte(t) /\ UNCHANGED <<codec_vars, union_vars>>
    \/ \E t \in Threads : StoreByte(t) /\ UNCHANGED <<codec_vars, union_vars>>
    \/ \E t \in Threads : LoadField(t) /\ UNCHANGED <<codec_vars, union_vars>>
    \/ \E t \in Threads : ThreadReturn(t) /\ UNCHANGED <<codec_vars, union_vars>>

SpecThreads == Init /\ [][NextThreads]_vars

(***************************************************************************)
(* Properties of the codec                                                 *)
(***************************************************************************)
\* the documented value ranges of the three fields
ValidRecord(r) ==
    /\ r["wrist_orientation"] \in {0, 1}
    /\ r["pair_button_orientation"] \in {0, 1}
    /\ r["intensity_level"] \in {0, 1, 2}

\* C1: round trip. When the bytes encoded from a valid record r are decoded in a
\* fresh union, the decode succeeds and yields r, whatever the fresh union held.
C1_RoundTrip ==
    (op = "decode" /\ chained /\ ValidRecord(prev_rec))
        => (err = "none" /\ rec = prev_rec)

C1_Witness ==
    /\ op = "decode"
    /\ chained
    /\ prev_rec = Rec(1, 0, 1)
    /\ rec = Rec(1, 0, 1)
    /\ un0 = [a \in Addr |-> Uint8Max]

\* C2: field order. encode(r) is the sequence with r.wrist_orientation at offset
\* 0, r.pair_button_orientation at offset 1 and r.intensity_level at offset 2.
C2_FieldOrder ==
    (op = "encode" /\ err = "none")
        => wire = << rec["wrist_orientation"],
                     rec["pair_button_orientation"],
                     rec["intensity_level"] >>

C2_Witness ==
    /\ op = "encode"
    /\ rec = Rec(0, 1, 2)
    /\ wire = <<0, 1, 2>>

C5_VerbatimDecode ==
    (op = "decode" /\ Len(wire) = 3)
        => (err = "none" /\ rec = Rec(wire[1], wire[2], wire[3]))

C5_Witness ==
    /\ op = "decode"
    /\ ~chained
    /\ wire = <<9, 9, 9>>
    /\ err = "none"
    /\ rec = Rec(9, 9, 9)

\* C6: encode is total on valid records: it never ends in an error.
C6_EncodeTotal ==
    (op = "encode" /\ ValidRecord(rec)) => err = "none"

C6_Witness ==
    /\ op = "encode"
    /\ ~chained
    /\ rec = Rec(1, 1, 2)
    /\ err = "none"

\* C8: documented structure size. The structure of the data member is 2 bytes
\* and so is the bytes array declared with sizeof(hts_settings).
C8_DocumentedSize ==
    /\ sizeof_hts_settings = DocumentedSize
    /\ Cardinality(DOMAIN bytes_view(un)) = DocumentedSize

\* C9: reverse round trip. When the record decoded from 3 bytes b (any bytes) is
\* encoded in a fresh union the result is b again; and decoding what was encoded
\* from any record gives that record, so the two directions are inverse.
C9_ReverseRoundTrip ==
    /\ (op = "encode" /\ chained) => (err = "none" /\ wire = prev_wire)
    /\ (op = "decode" /\ chained) => (err = "none" /\ rec = prev_rec)

C9_Witness ==
    /\ op = "encode"
    /\ chained
    /\ prev_wire = <<Uint8Max, 9, 3>>
    /\ wire = <<Uint8Max, 9, 3>>

(***************************************************************************)
(* Properties of one union and of calls on several threads                 *)
(***************************************************************************)
\* the field the claim pairs with each index of bytes
ByteField(i) ==
    CASE i = 0 -> "wrist_orientation"
      [] i = 1 -> "pair_button_orientation"
      [] i = 2 -> "intensity_level"

FieldByte(f) == CHOOSE i \in 0..2 : ByteField(i) = f

\* bytes[i] and its field hold v; every other byte and field is as it was
OnlyChanged(i, v) ==
    /\ bytes_view(hu)[i] = v
    /\ data_view(hu)[ByteField(i)] = v
    /\ \A j \in (0..2) \ {i} :
        /\ bytes_view(hu)[j] = bytes_view(hu_prev)[j]
        /\ data_view(hu)[ByteField(j)] = data_view(hu_prev)[ByteField(j)]

\* C10: aliasing frame. After any writes through either member bytes[0], [1],
\* [2] equal data.wrist_orientation, .pair_button_orientation, .intensity_level;
\* a write to one field or to one bytes[i] changes the byte and the field at
\* that offset and nothing else.
C10_AliasingFrame ==
    /\ \A i \in 0..2 : bytes_view(hu)[i] = data_view(hu)[ByteField(i)]
    /\ last_kind = "field" => OnlyChanged(FieldByte(last_field), last_val)
    /\ last_kind = "byte" => OnlyChanged(last_index, last_val)

C10_Witness ==
    /\ last_kind = "byte"
    /\ last_index = 1
    /\ last_val = 9
    /\ hu_prev = [a \in Addr |-> Uint8Max]
    /\ data_view(hu) = Rec(Uint8Max, 9, Uint8Max)

\* what belongs to thread t: its call and its union instance
ThreadState(t) ==
    << tu[t], tpc[t], tk[t], top[t], targ_rec[t], targ_wire[t],
       tret_rec[t], tret_wire[t], terr[t] >>

\* a finished call has the result the same call has when run alone
ResultAlone(t) ==
    tpc[t] = "done" =>
        \A m \in FreshUnion :
            IF top[t] = "encode"
            THEN /\ terr[t] = encode(m, targ_rec[t]).err
                 /\ tret_wire[t] = encode(m, targ_rec[t]).wire
            ELSE /\ terr[t] = decode(m, targ_wire[t]).err
                 /\ tret_rec[t] = decode(m, targ_wire[t]).rec

\* C7: thread independence. With calls interleaved on separate threads, each
\* on its own union instance, every finished call has the result it has when
\* run alone, and no step of one thread changes what belongs to another.
C7_ThreadIndependence ==
    /\ [](\A t \in Threads : ResultAlone(t))
    /\ [][\A t \in Threads, o \in Threads :
            (t # o /\ ThreadState(t)' # ThreadState(t))
                => ThreadState(o)' = ThreadState(o)]_vars

C7_Witness ==
    /\ tpc[1] = "done"
    /\ top[1] = "encode"
    /\ tret_wire[1] = <<0, 1, 2>>
    /\ tpc[2] = "load"
    /\ top[2] = "decode"
    /\ targ_wire[2] = <<1, 1, 2>>

====
